---- MODULE Spec2Model ----
(***************************************************************************)
(* Model of src/lib.rs: a Cloudflare worker that fetches a URL, stores      *)
(* successful origin responses in an R2 bucket under a key derived from     *)
(* the URL, serves the stored copy when the origin fails, and forwards to   *)
(* a fallback URL when there is no stored copy.                             *)
(*                                                                         *)
(* One task per inbound request.  Every `.await` on network I/O (origin     *)
(* fetch, bucket head, bucket put, bucket get, fallback fetch) is a         *)
(* suspension point, so each of them is one action and tasks interleave     *)
(* between them.                                                            *)
(***************************************************************************)
EXTENDS Integers, Sequences, FiniteSets, TLC

\* ------------------------------------------------------------------ bounds
\* Number of request tasks the worker runs (possibly concurrently).
NumTasks == 2

Tasks == 1..NumTasks

\* ------------------------------------------------------------------ inputs
\* URL strings a caller may pass.  "" is a string the URL parser rejects.
Urls == {"", "http://example.com/a", "http://example.com/b"}

\* Strings the key deriver is applied to: the URLs above and near misses of
\* them (case, scheme, host, trailing slash, query, space, short strings).
KeyInputs ==
    Urls \cup {"a", "b", "ab", "http://example.com/A", "http://example.com/a/",
              "https://example.com/a", "http://example.com/a?x=1",
              "http://example.com/a b", "http://example.org/a"}

\* The GET query carries no `url` pair.
NoUrl == "<no url parameter>"

\* Configured secret (env var API_TOKEN) and the tokens callers send.
API_TOKEN == "secret"
Tokens == {"secret", "wrong"}

\* Status codes the origin may answer with: both edges of 200..300 and 400..
OriginStatuses == {199, 200, 300, 399, 400, 500}

\* ResponseBody values of a fetched response: no body, or a stream of bytes.
Empty == [repr |-> "Empty", bytes |-> ""]
Stream(b) == [repr |-> "Stream", bytes |-> b]
Body(b) == [repr |-> "Body", bytes |-> b]

OkBodies == {Empty, Stream("hello")}
ErrBodies == {Stream("origin down")}
OriginBodies(status) == IF status >= 200 /\ status < 300 THEN OkBodies ELSE ErrBodies

\* Responses the fallback URL may give.
FallbackResponses ==
    { [status |-> 200, body |-> Stream("fallback")],
      [status |-> 503, body |-> Stream("unavailable")] }

\* ------------------------------------------------------------ key deriver
\* Sha256::digest(url.as_bytes()): the 32 digest bytes of the model's URLs.
Sha256(url) ==
    CASE url = "" ->
           <<227, 176, 196, 66, 152, 252, 28, 20, 154, 251, 244, 200, 153, 111,
             185, 36, 39, 174, 65, 228, 100, 155, 147, 76, 164, 149, 153, 27,
             120, 82, 184, 85>>
      [] url = "http://example.com/a" ->
           <<91, 212, 143, 166, 97, 24, 8, 76, 195, 39, 121, 38, 122, 49, 17,
             109, 192, 92, 112, 188, 188, 160, 242, 142, 153, 12, 213, 140,
             225, 10, 254, 174>>
      [] url = "http://example.com/b" ->
           <<4, 45, 121, 84, 41, 44, 31, 67, 104, 7, 25, 6, 242, 219, 165, 169,
             248, 80, 209, 137, 10, 229, 247, 253, 204, 180, 182, 175, 9, 247,
             125, 57>>
      [] url = "a" ->
           <<202, 151, 129, 18, 202, 27, 189, 202, 250, 194, 49, 179, 154, 35,
             220, 77, 167, 134, 239, 248, 20, 124, 78, 114, 185, 128, 119, 133,
             175, 238, 72, 187>>
      [] url = "b" ->
           <<62, 35, 232, 22, 0, 57, 89, 74, 51, 137, 79, 101, 100, 225, 177,
             52, 139, 189, 122, 0, 136, 212, 44, 74, 203, 115, 238, 174, 213,
             156, 0, 157>>
      [] url = "ab" ->
           <<251, 142, 32, 252, 46, 76, 63, 36, 140, 96, 195, 155, 214, 82,
             243, 193, 52, 114, 152, 187, 151, 123, 139, 77, 89, 3, 184, 80,
             85, 98, 6, 3>>
      [] url = "http://example.com/A" ->
           <<159, 7, 56, 122, 68, 123, 7, 40, 135, 45, 161, 111, 145, 21, 72,
             250, 2, 28, 159, 245, 24, 207, 219, 48, 184, 103, 237, 143, 129,
             74, 201, 234>>
      [] url = "http://example.com/a/" ->
           <<188, 86, 228, 198, 61, 155, 14, 47, 39, 126, 46, 179, 193, 1, 99,
             139, 215, 114, 234, 69, 181, 24, 160, 110, 217, 90, 161, 93, 235,
             78, 206, 242>>
      [] url = "https://example.com/a" ->
           <<45, 206, 10, 76, 80, 68, 27, 252, 207, 169, 202, 244, 181, 140,
             60, 186, 110, 6, 196, 32, 80, 93, 216, 41, 240, 67, 109, 225, 170,
             68, 186, 172>>
      [] url = "http://example.com/a?x=1" ->
           <<162, 103, 88, 10, 62, 98, 192, 155, 186, 74, 196, 122, 232, 143,
             71, 185, 189, 136, 243, 64, 207, 35, 16, 190, 62, 26, 237, 86,
             109, 111, 14, 147>>
      [] url = "http://example.com/a b" ->
           <<70, 3, 249, 252, 150, 70, 149, 33, 191, 225, 31, 17, 30, 154, 223,
             102, 150, 220, 55, 139, 195, 169, 79, 74, 176, 157, 166, 209, 227,
             76, 210, 130>>
      [] url = "http://example.org/a" ->
           <<106, 45, 106, 71, 162, 130, 143, 224, 33, 174, 250, 205, 51, 98,
             148, 53, 160, 102, 132, 52, 133, 234, 200, 27, 70, 191, 69, 31,
             121, 70, 27, 219>>

\* base16ct lower-case alphabet.
HexDigits ==
    <<"0", "1", "2", "3", "4", "5", "6", "7", "8", "9", "a", "b", "c", "d", "e", "f">>

\* base16ct::lower::encode_str: every byte becomes its high nibble's digit
\* followed by its low nibble's digit.
RECURSIVE encode_str(_)
encode_str(bytes) ==
    IF bytes = <<>>
    THEN ""
    ELSE HexDigits[(Head(bytes) \div 16) + 1] \o HexDigits[(Head(bytes) % 16) + 1]
            \o encode_str(Tail(bytes))

\* format!("{}/{}/{}", &hex[0..2], &hex[2..4], &hex[4..])
get_r2_key_ignores_url(url) ==
    LET hex == encode_str(Sha256(""))
    IN  SubSeq(hex, 1, 2) \o "/" \o SubSeq(hex, 3, 4) \o "/" \o SubSeq(hex, 5, Len(hex))
get_r2_key_skips_a_digit(url) ==
    LET hex == encode_str(Sha256(url))
    IN  SubSeq(hex, 1, 2) \o "/" \o SubSeq(hex, 3, 4) \o "/" \o SubSeq(hex, 6, Len(hex))
get_r2_key(url) ==
    LET hex == encode_str(Sha256(url))
    IN  SubSeq(hex, 1, 2) \o "/" \o SubSeq(hex, 3, 4) \o "/" \o SubSeq(hex, 5, Len(hex))

\* `let key = get_r2_key(url)`: the key of each URL of the model, derived once.
key_of == [u \in Urls |-> get_r2_key(u)]

Keys == {key_of[u] : u \in Urls}

\* ------------------------------------------------------------------ values
NoObject == [present |-> FALSE, body |-> "", url |-> ""]
Object(bytes, url) == [present |-> TRUE, body |-> bytes, url |-> url]

NoResponse == [kind |-> "None", status |-> 0, body |-> Empty]
Ok(status, body) == [kind |-> "Ok", status |-> status, body |-> body]
Err(msg) == [kind |-> "Err", status |-> 0, body |-> Body(msg)]

\* Counters of the I/O operations a task has issued.
NoOps == [origin |-> 0, head |-> 0, put |-> 0, get |-> 0, fallback |-> 0]

\* A task: where it is (pc), the request it serves (method, url, token), the
\* origin response it holds (res), what cache_url returned (result) and by
\* which branch (ret), and what the handler answered (response).  `warm`,
\* `ops` and `fault` are history: whether the object was already stored when
\* the request entered cache_url, the I/O the task has issued, and which of
\* its I/O operations failed at transport level ("" when none did).
IdleTask ==
    [pc |-> "idle", method |-> "", url |-> NoUrl, token |-> "", warm |-> FALSE,
     res |-> NoResponse, ret |-> "", result |-> NoResponse,
     response |-> NoResponse, ops |-> NoOps, fault |-> ""]

\* Two applications of get_r2_key: the strings given and the keys returned.
NoKeys == [u1 |-> "", u2 |-> "", k1 |-> "", k2 |-> ""]

VARIABLES
    bucket,     \* the R2 bucket: key -> stored object
    task,       \* the request tasks
    derived     \* the key deriver's last two inputs and outputs

vars == <<bucket, task, derived>>

Init ==
    /\ bucket = [k \in Keys |-> NoObject]
    /\ task = [t \in Tasks |-> IdleTask]
    /\ derived = NoKeys

\* ----------------------------------------------------------------- helpers
\* match res.status_code() { 200..300 => .., 400.. => .., _ => .. }
IsSuccess_unbounded(status) == status >= 200
IsSuccess(status) == status >= 200 /\ status < 300
IsFailure_from_300(status) == status >= 300
IsFailure(status) == status >= 400

\* r.is_some() on the result of bucket.head(&key)
head_is_some_never(b, key) == FALSE
head_is_some_inverted(b, key) == ~b[key].present
head_is_some(b, key) == b[key].present

\* `if let Some(obj)` on the result of bucket.get(&key)
get_is_some_always(b, key) == TRUE
get_is_some(b, key) == b[key].present

\* The Data written for a response body.
Data_drops_stream(body) ==
    IF body.repr = "Body"
    THEN [repr |-> "Bytes", bytes |-> body.bytes]
    ELSE [repr |-> "Empty", bytes |-> ""]
Data(body) ==
    CASE body.repr = "Empty" -> [repr |-> "Empty", bytes |-> ""]
      [] body.repr = "Body" -> [repr |-> "Bytes", bytes |-> body.bytes]
      [] body.repr = "Stream" -> [repr |-> "ReadableStream", bytes |-> body.bytes]

\* bucket.put(&key, value).custom_metadata({"url": url}).execute()
bucket_put_without_metadata(b, key, value, url) ==
    [b EXCEPT ![key] = Object(value.bytes, "")]
bucket_put(b, key, value, url) == [b EXCEPT ![key] = Object(value.bytes, url)]

\* Response::from_body(body.response_body()?): a 200 whose body streams the object.
from_body_empty(obj) == Ok(200, Empty)
from_body(obj) == Ok(200, Stream(obj.body))

\* Response::error("invalid access token", 403) and Response::empty()
Forbidden == Ok(403, Body("invalid access token"))
Response_empty == Ok(200, Empty)

\* Url parsing in Request::new_with_init: the empty string is no URL.
ValidUrl(url) == url # ""

\* body.access_token != api_token
token_mismatch_never(access_token, api_token) == FALSE
token_mismatch(access_token, api_token) == access_token # api_token

\* get: the value of cache_url(..).await is the handler's value.
get_response(result) == result

\* post: cache_url(..).await? propagates an error, then Response::empty().
post_response_passes(result) == result
post_response(result) == IF result.kind = "Err" THEN result ELSE Response_empty

\* cache_url returns `result` through branch `ret`; the handler answers and
\* the task is finished.  The origin response is moved or dropped.
Return(t, ret, result, ops) ==
    task' = [task EXCEPT ![t] =
                [@ EXCEPT !.pc = "done", !.res = NoResponse, !.ret = ret,
                          !.result = result,
                          !.response = IF task[t].method = "POST"
                                       THEN post_response(result)
                                       ELSE get_response(result),
                          !.ops = ops]]

\* The `?` after an awaited operation: an Err leaves the function at once,
\* whichever operation `op` it was.
on_error_retries(op) == IF op = "origin" THEN "fetch" ELSE op
on_error_reads_store(op) == IF op = "origin" THEN "get" ELSE "done"
on_error(op) == "done"

\* put_in_r2(ctx, url_str, res.cloned()?).await?; Ok(res)
after_put_ignores_error(put_result, res) == res
after_put(put_result, res) == IF put_result.kind = "Err" THEN put_result ELSE res

\* Operation `op` of task t failed; cache_url returns `result`.
Fault(t, op, result, ops) ==
    task' = [task EXCEPT ![t] =
                [@ EXCEPT !.pc = on_error(op), !.res = NoResponse, !.ret = "error",
                          !.fault = op, !.result = result,
                          !.response = IF task[t].method = "POST"
                                       THEN post_response(result)
                                       ELSE get_response(result),
                          !.ops = ops]]

\* Entry of cache_url up to its first await: build the origin request.
\* A string that is no URL makes Request::new_with_init fail.
cache_url_enter(t, method, url, token) ==
    LET entered == [task[t] EXCEPT !.method = method, !.url = url, !.token = token,
                                   !.warm = bucket[key_of[url]].present]
    IN  IF ValidUrl(url)
        THEN task' = [task EXCEPT ![t] = [entered EXCEPT !.pc = "fetch"]]
        ELSE task' = [task EXCEPT ![t] =
                        [entered EXCEPT !.pc = "done", !.ret = "error",
                                        !.result = Err("invalid url"),
                                        !.response = Err("invalid url")]]

\* ----------------------------------------------------------------- actions
\* GET /?url=...
get(t) ==
    /\ task[t].pc = "idle"
    /\ \E q \in Urls \cup {NoUrl} :
          IF q = NoUrl
          THEN task' = [task EXCEPT ![t] =
                          [@ EXCEPT !.pc = "done", !.method = "GET",
                                    !.ret = "input",
                                    !.response = Err("missing url parameter")]]
          ELSE cache_url_enter(t, "GET", q, "")
    /\ UNCHANGED bucket

\* POST / with a JSON body {url, access_token}, or a body that does not parse.
post(t) ==
    /\ task[t].pc = "idle"
    /\ \/ task' = [task EXCEPT ![t] =
                      [@ EXCEPT !.pc = "done", !.method = "POST",
                                !.ret = "input",
                                !.response = Err("malformed json")]]
       \/ \E url \in Urls, access_token \in Tokens :
             IF token_mismatch(access_token, API_TOKEN)
             THEN task' = [task EXCEPT ![t] =
                             [@ EXCEPT !.pc = "done", !.method = "POST",
                                       !.url = url, !.token = access_token,
                                       !.ret = "forbidden",
                                       !.response = Forbidden]]
             ELSE cache_url_enter(t, "POST", url, access_token)
    /\ UNCHANGED bucket

\* Fetch::Request(req).send().await? and the match on the status code.
cache_url_fetch(t) ==
    /\ task[t].pc = "fetch"
    /\ LET ops == [task[t].ops EXCEPT !.origin = @ + 1]
       IN  \/ Fault(t, "origin", Err("origin fetch failed"), ops)
           \/ \E status \in OriginStatuses :
                \E body \in OriginBodies(status) :
                   IF IsSuccess(status)
                   THEN task' = [task EXCEPT ![t] =
                                   [@ EXCEPT !.pc = "head", !.ops = ops,
                                             !.res = Ok(status, body)]]
                   ELSE IF IsFailure(status)
                   THEN task' = [task EXCEPT ![t] =
                                   [@ EXCEPT !.pc = "get", !.ops = ops,
                                             !.res = Ok(status, body)]]
                   ELSE Return(t, "error",
                               Err("unexpected status code from origin"), ops)
    /\ UNCHANGED bucket

\* put_in_r2: bucket.head(&key).await? and the early return when it exists.
put_in_r2_head(t) ==
    /\ task[t].pc = "head"
    /\ LET ops == [task[t].ops EXCEPT !.head = @ + 1]
           key == key_of[task[t].url]
       IN  \/ Fault(t, "head", after_put(Err("bucket head failed"), task[t].res), ops)
           \/ IF head_is_some(bucket, key)
              THEN Return(t, "origin", task[t].res, ops)
              ELSE task' = [task EXCEPT ![t] = [@ EXCEPT !.pc = "put", !.ops = ops]]
    /\ UNCHANGED bucket

\* put_in_r2: bucket.put(..).execute().await?, then cache_url returns Ok(res).
put_in_r2_put(t) ==
    /\ task[t].pc = "put"
    /\ LET ops == [task[t].ops EXCEPT !.put = @ + 1]
           key == key_of[task[t].url]
       IN  \/ /\ Fault(t, "put", after_put(Err("bucket put failed"), task[t].res), ops)
              /\ UNCHANGED bucket
           \/ /\ bucket' = bucket_put(bucket, key, Data(task[t].res.body), task[t].url)
              /\ Return(t, "stored", task[t].res, ops)

\* get_from_r2: bucket.get(&key).execute().await, and the hit branch.
get_from_r2(t) ==
    /\ task[t].pc = "get"
    /\ LET ops == [task[t].ops EXCEPT !.get = @ + 1]
           key == key_of[task[t].url]
       IN  \/ Fault(t, "get", Err("bucket get failed"), ops)
           \/ IF get_is_some(bucket, key)
              THEN Return(t, "hit", from_body(bucket[key]), ops)
              ELSE task' = [task EXCEPT ![t] =
                              [@ EXCEPT !.pc = "fallback", !.ops = ops]]
    /\ UNCHANGED bucket

\* Fetch::Url(fallback_url).send().await: the response is returned uninspected.
fallback_fetch(t) ==
    /\ task[t].pc = "fallback"
    /\ LET ops == [task[t].ops EXCEPT !.fallback = @ + 1]
       IN  \/ Fault(t, "fallback", Err("fallback fetch failed"), ops)
           \/ \E r \in FallbackResponses :
                 Return(t, "fallback", Ok(r.status, r.body), ops)
    /\ UNCHANGED bucket

Next ==
    /\ \E t \in Tasks :
          \/ get(t)
          \/ post(t)
          \/ cache_url_fetch(t)
          \/ put_in_r2_head(t)
          \/ put_in_r2_put(t)
          \/ get_from_r2(t)
          \/ fallback_fetch(t)
    /\ UNCHANGED derived

Spec == Init /\ [][Next]_vars

\* Requests served one after the other: a task steps only while every other
\* task is idle or finished.
Alone(t) == \A u \in Tasks \ {t} : task[u].pc \in {"idle", "done"}

NextSeq ==
    /\ \E t \in Tasks :
          /\ Alone(t)
          /\ \/ get(t)
             \/ post(t)
             \/ cache_url_fetch(t)
             \/ put_in_r2_head(t)
             \/ put_in_r2_put(t)
             \/ get_from_r2(t)
             \/ fallback_fetch(t)
    /\ UNCHANGED derived

SpecSeq == Init /\ [][NextSeq]_vars

\* Every awaited operation completes (with a value or an error), after which
\* the runtime resumes the task: while some task can step, one eventually
\* does.  Requests arrive when callers send them; nothing forces get or post.
Resume(t) ==
    /\ \/ cache_url_fetch(t)
       \/ put_in_r2_head(t)
       \/ put_in_r2_put(t)
       \/ get_from_r2(t)
       \/ fallback_fetch(t)
    /\ UNCHANGED derived

SpecLive == Spec /\ WF_vars(\E t \in Tasks : Resume(t))

\* The key deriver on its own: get_r2_key applied to two strings.
derive_keys ==
    /\ \E u1 \in KeyInputs, u2 \in KeyInputs :
          derived' = [u1 |-> u1, u2 |-> u2,
                      k1 |-> get_r2_key(u1), k2 |-> get_r2_key(u2)]
    /\ UNCHANGED <<bucket, task>>

SpecKey == Init /\ [][derive_keys]_vars

\* ------------------------------------------------------------- vocabulary
Key(t) == key_of[task[t].url]

\* The status bands the claims speak of.
Is2xx(status) == status \in 200..299
Is4xxUp(status) == status >= 400
Done(t) == task[t].pc = "done"

\* The task's cache_url went through the 200..300 branch and returned Ok(res).
OriginServed(t) == Done(t) /\ task[t].ret \in {"origin", "stored"}

\* Tasks that executed a bucket put for key k.
Writers(k) == {t \in Tasks : Done(t) /\ task[t].ret = "stored" /\ Key(t) = k}

\* Task t takes the step that leaves program point p.
Leaves(t, p) == task[t].pc = p /\ task'[t].pc # p

\* ---------------------------------------------------------------------- C1
\* C1 as stated: a request whose origin fetch returned 2xx and whose store
\* operations succeeded hands back the origin response, and if its key was
\* absent when the request came in, the bucket then holds an object at that
\* key whose body is the origin body of this request.
C1_StoreHoldsOwnBody ==
    \A t \in Tasks :
        OriginServed(t) =>
            /\ task[t].result.kind = "Ok"
            /\ Is2xx(task[t].result.status)
            /\ ~task[t].warm =>
                  /\ bucket[Key(t)].present
                  /\ bucket[Key(t)].body = task[t].result.body.bytes

\* C1 amended: the step that completes a 2xx request without a store error
\* returns the held origin response unchanged (status and body) and leaves an
\* object at the key; when that step is the request's own put (the key was
\* absent at its existence check), the object it leaves has the origin body
\* and the URL as metadata.
C1_ReturnsOriginAndWritesOwnBody ==
    [][\A t \in Tasks :
          ((Leaves(t, "head") \/ Leaves(t, "put")) /\ task'[t].pc = "done"
             /\ task'[t].ret # "error") =>
                /\ Is2xx(task[t].res.status)
                /\ task'[t].result = task[t].res
                /\ bucket'[Key(t)].present
                /\ task[t].pc = "put" =>
                      bucket'[Key(t)] = Object(task[t].res.body.bytes, task[t].url)]_vars

\* Scenario A: a cold request got 200 "hello", stored it and returned it.
C1_Witness ==
    \E t \in Tasks :
        /\ Done(t) /\ task[t].ret = "stored" /\ ~task[t].warm
        /\ task[t].method = "GET"
        /\ task[t].response = Ok(200, Stream("hello"))
        /\ bucket[Key(t)] = Object("hello", task[t].url)

\* ---------------------------------------------------------------------- C2
\* C2: when the origin answered >= 400 and the bucket holds an object at the
\* key when it is read (and the read itself succeeds), cache_url returns a
\* 200 whose body is the stored body, not the origin's failing response, and
\* the task finishes without a fallback fetch.
C2_HitServesStoredBody ==
    [][\A t \in Tasks :
          (Leaves(t, "get") /\ bucket[Key(t)].present /\ task'[t].ret # "error") =>
                /\ Is4xxUp(task[t].res.status)
                /\ task'[t].pc = "done"
                /\ task'[t].result.kind = "Ok"
                /\ task'[t].result.status = 200
                /\ task'[t].result.body.bytes = bucket[Key(t)].body
                /\ task'[t].result.status # task[t].res.status
                /\ task'[t].result.body # task[t].res.body
                /\ task'[t].ops.fallback = 0]_vars

\* Scenario B: the origin answered 500, the stored "hello" came back as a 200.
C2_Witness ==
    \E t \in Tasks :
        /\ Done(t) /\ task[t].ret = "hit" /\ task[t].method = "GET"
        /\ task[t].response.status = 200
        /\ task[t].response.body.bytes = "hello"
        /\ task[t].ops.fallback = 0

\* ---------------------------------------------------------------------- C3
\* C3: when the origin answered >= 400 and the read finds no object, the task
\* goes on to the fallback fetch; it issues exactly one, returns what the
\* fallback answered (status and body as they are), and neither step changes
\* the bucket nor has the task issued a put.
FallbackAnswers == {Ok(r.status, r.body) : r \in FallbackResponses}

C3_MissForwardsToFallback ==
    [][\A t \in Tasks :
          /\ (Leaves(t, "get") /\ ~bucket[Key(t)].present /\ task'[t].ret # "error") =>
                /\ Is4xxUp(task[t].res.status)
                /\ task'[t].pc = "fallback"
                /\ task'[t].ops.fallback = 0
                /\ bucket' = bucket
          /\ Leaves(t, "fallback") =>
                /\ task'[t].pc = "done"
                /\ task'[t].ops.fallback = 1
                /\ task'[t].ops.put = 0
                /\ bucket' = bucket
                /\ task'[t].ret # "error" => task'[t].result \in FallbackAnswers]_vars

\* Scenario C: cold key, failing origin, the fallback's 503 is the answer.
C3_Witness ==
    \E t \in Tasks :
        /\ Done(t) /\ task[t].ret = "fallback" /\ task[t].method = "GET"
        /\ task[t].response = Ok(503, Stream("unavailable"))
        /\ task[t].ops.fallback = 1
        /\ ~bucket[Key(t)].present

\* ---------------------------------------------------------------------- C4
\* C4: once a key holds an object, no step changes that object (body or
\* metadata) or removes it.
C4_StoredObjectsNeverChange ==
    [][\A k \in Keys : bucket[k].present => bucket'[k] = bucket[k]]_vars

\* ---------------------------------------------------------------------- C5
\* C5: for every key at most one bucket put is ever executed.
C5_AtMostOnePutPerKey ==
    \A k \in Keys : Cardinality(Writers(k)) <= 1

\* ---------------------------------------------------------------------- C6
\* C6: two requests for the same URL, unseen when each came in, that both got
\* a 2xx from the origin and met no store error: both return Ok with the 2xx
\* response they fetched, and the bucket holds the object of that URL, put by
\* a request for it.
C6_RaceBothServedOneObject ==
    \A t \in Tasks, u \in Tasks :
        (t # u /\ task[t].url = task[u].url /\ ~task[t].warm /\ ~task[u].warm
           /\ OriginServed(t) /\ OriginServed(u)) =>
              /\ \A v \in {t, u} :
                    /\ task[v].result.kind = "Ok"
                    /\ Is2xx(task[v].result.status)
                    /\ task[v].result.body \in OkBodies
                    /\ task[v].method = "GET" => task[v].response = task[v].result
              /\ bucket[Key(t)].present
              /\ bucket[Key(t)].url = task[t].url
              /\ Writers(Key(t)) # {}

\* Scenario E: both raced, each got its own body back, one object is stored.
C6_Witness ==
    \E t \in Tasks, u \in Tasks :
        /\ t # u /\ task[t].url = task[u].url /\ ~task[t].warm /\ ~task[u].warm
        /\ OriginServed(t) /\ OriginServed(u)
        /\ task[t].ret = "stored" /\ task[u].ret = "origin"
        /\ task[t].method = "GET" /\ task[u].method = "GET"
        /\ task[t].response.body = Stream("hello")
        /\ task[u].response.body = Empty
        /\ bucket[Key(t)].present

\* ---------------------------------------------------------------------- C7
\* C7 (requests one after the other): of the put_in_r2 calls made for one key
\* at most one writes, every call that met no store error returns Ok, and the
\* bucket keeps the body and metadata of the call that wrote, whatever later
\* calls carried.
C7_SecondPutIsNoOp ==
    /\ \A k \in Keys : Cardinality(Writers(k)) <= 1
    /\ \A t \in Tasks :
          /\ OriginServed(t) => task[t].result.kind = "Ok"
          /\ (Done(t) /\ task[t].ret = "stored") =>
                bucket[Key(t)] = Object(task[t].result.body.bytes, task[t].url)
          /\ (OriginServed(t) /\ task[t].warm) => task[t].ops.put = 0

\* The first call wrote "hello"; the second carried an empty body and wrote
\* nothing.
C7_Witness ==
    \E t \in Tasks, u \in Tasks :
        /\ t # u /\ task[t].url = task[u].url
        /\ Done(t) /\ task[t].ret = "stored" /\ task[t].result.body = Stream("hello")
        /\ Done(u) /\ task[u].ret = "origin" /\ task[u].warm
        /\ task[u].result.body = Empty
        /\ task[u].ops.head = 1 /\ task[u].ops.put = 0
        /\ bucket[Key(t)] = Object("hello", task[t].url)

\* ---------------------------------------------------------------------- C8
\* C8 as stated: a request that comes in when its URL's object is already
\* stored is served from the bucket and never fetches the origin.
C8_WarmRequestSkipsOrigin ==
    \A t \in Tasks :
        task[t].warm => (task[t].ops.origin = 0 /\ (Done(t) => task[t].ret = "hit"))

\* C8 amended: a request that comes in when its URL's object is already
\* stored still fetches the origin, exactly once; it ends by returning the
\* origin's 2xx response, by serving the stored object as a 200 after a read
\* (which only follows an origin status >= 400), or with an error; it never
\* puts and never fetches the fallback.
C8_WarmRequestFetchesOriginFirst ==
    \A t \in Tasks :
        (task[t].warm /\ Done(t)) =>
            /\ task[t].ops.origin = 1
            /\ task[t].ret \in {"origin", "hit", "error"}
            /\ task[t].ops.put = 0
            /\ task[t].ops.fallback = 0
            /\ task[t].ret = "origin" =>
                  (Is2xx(task[t].result.status) /\ task[t].ops.get = 0)
            /\ task[t].ret = "hit" =>
                  /\ task[t].ops.get = 1
                  /\ task[t].ops.head = 0
                  /\ task[t].result.status = 200
                  /\ task[t].result.body.repr = "Stream"

\* A warm request fetched the origin, got 2xx, and returned it.
C8_Witness ==
    \E t \in Tasks :
        /\ task[t].warm /\ Done(t) /\ task[t].ret = "origin"
        /\ task[t].ops.origin = 1 /\ task[t].ops.get = 0

\* ---------------------------------------------------------------------- C9
\* C9: a POST whose access_token is not the configured API_TOKEN is answered
\* 403 and has issued no origin fetch, no fallback fetch and no bucket
\* operation.
C9_WrongTokenForbidden ==
    \A t \in Tasks :
        (task[t].method = "POST" /\ task[t].token \in Tokens
           /\ task[t].token # API_TOKEN) =>
              /\ Done(t)
              /\ task[t].response.kind = "Ok"
              /\ task[t].response.status = 403
              /\ task[t].ops = NoOps

\* Scenario D, while another request has stored an object.
C9_Witness ==
    \E t \in Tasks :
        /\ task[t].method = "POST" /\ task[t].token = "wrong" /\ Done(t)
        /\ task[t].response.status = 403
        /\ \E k \in Keys : bucket[k].present

\* --------------------------------------------------------------------- C10
\* C10: a POST with the right token whose cache_url returned Ok answers with
\* an empty 200, whichever branch cache_url returned through and whatever
\* status and body its response had.
C10_PostAnswersEmpty ==
    \A t \in Tasks :
        (Done(t) /\ task[t].method = "POST" /\ task[t].token = API_TOKEN
           /\ task[t].result.kind = "Ok") =>
              /\ task[t].ret \in {"origin", "stored", "hit", "fallback"}
              /\ task[t].response = Response_empty

\* A POST whose cache_url returned the fallback's 503 answered an empty 200.
C10_Witness ==
    \E t \in Tasks :
        /\ Done(t) /\ task[t].method = "POST" /\ task[t].ret = "fallback"
        /\ task[t].result = Ok(503, Stream("unavailable"))
        /\ task[t].response = Response_empty

\* --------------------------------------------------------------------- C11
\* The I/O a request has issued when it stops at a failed operation.
OpsAt(op) ==
    CASE op = "origin" -> [origin |-> 1, head |-> 0, put |-> 0, get |-> 0, fallback |-> 0]
      [] op = "head" -> [origin |-> 1, head |-> 1, put |-> 0, get |-> 0, fallback |-> 0]
      [] op = "put" -> [origin |-> 1, head |-> 1, put |-> 1, get |-> 0, fallback |-> 0]
      [] op = "get" -> [origin |-> 1, head |-> 0, put |-> 0, get |-> 1, fallback |-> 0]
      [] op = "fallback" -> [origin |-> 1, head |-> 0, put |-> 0, get |-> 1, fallback |-> 1]

\* C11: a request whose bucket head, put or get failed is finished, cache_url
\* returned Err and so did the handler (the origin's 2xx response is not
\* handed back), and the request issued nothing after the failed operation
\* and did not issue it again: no put after a failed head, no fallback fetch
\* after a failed get.
C11_StoreErrorIsFatal ==
    \A t \in Tasks :
        task[t].fault \in {"head", "put", "get"} =>
            /\ Done(t)
            /\ task[t].result.kind = "Err"
            /\ task[t].response.kind = "Err"
            /\ task[t].ops = OpsAt(task[t].fault)

\* A GET whose origin answered 2xx ended in Err because the put failed: the
\* 2xx response was not handed back and nothing was stored.
C11_Witness ==
    \E t \in Tasks :
        /\ task[t].fault = "put" /\ Done(t) /\ task[t].method = "GET"
        /\ task[t].response.kind = "Err"
        /\ task[t].ops.put = 1
        /\ ~bucket[Key(t)].present

\* --------------------------------------------------------------------- C12
\* cache_url was called for the task's request.
Invoked(t) == task[t].pc \notin {"idle"} /\ task[t].ret \notin {"input", "forbidden"}

\* The terminal outcomes the claim names.
OutcomeCached(t) ==
    /\ task[t].ret \in {"origin", "stored"} /\ task[t].fault = ""
    /\ task[t].result.kind = "Ok" /\ Is2xx(task[t].result.status)
OutcomeHit(t) ==
    /\ task[t].ret = "hit" /\ task[t].fault = ""
    /\ task[t].result.kind = "Ok" /\ task[t].ops.get = 1 /\ task[t].ops.fallback = 0
OutcomeFallback(t) ==
    /\ task[t].ret = "fallback" /\ task[t].fault = ""
    /\ task[t].result.kind = "Ok" /\ task[t].ops.fallback = 1
OutcomeTransportError(t) ==
    /\ task[t].ret = "error" /\ task[t].fault # ""
    /\ task[t].result.kind = "Err"

\* The outcome the claim leaves out: an Err that no transport failure caused,
\* returned before any store or fallback operation (the origin's status is
\* in neither band, or the URL string is no URL).
OutcomeRejected(t) ==
    /\ task[t].ret = "error" /\ task[t].fault = ""
    /\ task[t].result.kind = "Err"
    /\ task[t].ops.head = 0 /\ task[t].ops.put = 0
    /\ task[t].ops.get = 0 /\ task[t].ops.fallback = 0

Count(flags) == Cardinality({i \in DOMAIN flags : flags[i]})

\* C12 as stated (its safety half, for the calls that got as far as sending
\* the origin request): a finished cache_url ended in exactly one of
\* (a) cached and returned, (b) served from cache, (c) fallback returned,
\* (d) store or fetch transport error.
C12_FourOutcomes ==
    \A t \in Tasks :
        (Done(t) /\ Invoked(t) /\ task[t].ops.origin = 1) =>
            Count(<<OutcomeCached(t), OutcomeHit(t), OutcomeFallback(t),
                    OutcomeTransportError(t)>>) = 1

\* C12 amended: every cache_url that was called finishes (from some point on
\* no called cache_url is unfinished; a finished task stays finished), and a
\* finished one ended in exactly one of the four outcomes above or of a
\* fifth: an error without transport failure, before any store or fallback
\* operation.
C12_TerminatesInOneOfFive ==
    /\ <>[](\A t \in Tasks : Invoked(t) => Done(t))
    /\ [](\A t \in Tasks :
            (Done(t) /\ Invoked(t)) =>
                Count(<<OutcomeCached(t), OutcomeHit(t), OutcomeFallback(t),
                        OutcomeTransportError(t), OutcomeRejected(t)>>) = 1)

\* Two finished requests: one through the fallback, one rejected for its
\* origin status.
C12_Witness ==
    \E t \in Tasks, u \in Tasks :
        /\ Done(t) /\ Invoked(t) /\ OutcomeFallback(t)
        /\ Done(u) /\ Invoked(u) /\ OutcomeRejected(u) /\ task[u].ops.origin = 1

\* --------------------------------------------------------------------- C13
\* C13: at every moment every request has issued each of its operations
\* (origin fetch, fallback fetch, bucket head, put, get) at most once,
\* whatever those operations answered.
C13_NoRetries ==
    \A t \in Tasks :
        /\ task[t].ops.origin <= 1
        /\ task[t].ops.fallback <= 1
        /\ task[t].ops.head <= 1
        /\ task[t].ops.put <= 1
        /\ task[t].ops.get <= 1

\* A request whose fallback fetch failed, and one whose put failed, are
\* finished having issued each operation once.
C13_Witness ==
    \E t \in Tasks, u \in Tasks :
        /\ Done(t) /\ task[t].fault = "fallback" /\ task[t].ops = OpsAt("fallback")
        /\ Done(u) /\ task[u].fault = "put" /\ task[u].ops = OpsAt("put")

\* --------------------------------------------------------------------- C14
\* C14: a GET without a `url` query parameter is answered with a response
\* whose status is in 400..499, and the request has issued no origin fetch,
\* no fallback fetch and no bucket operation.
C14_MissingUrlIs4xx ==
    \A t \in Tasks :
        (Done(t) /\ task[t].method = "GET" /\ task[t].url = NoUrl) =>
            /\ task[t].response.kind = "Ok"
            /\ task[t].response.status \in 400..499
            /\ task[t].ops = NoOps

\* --------------------------------------------------------------------- C15
\* Reading a key back: the value of a lower-case hexadecimal digit, and the
\* bytes that a string of such digits spells.
LowerHex == "0123456789abcdef"
IsLowerHex(c) == \E d \in 0..15 : SubSeq(LowerHex, d + 1, d + 1) = c
DigitValue(c) == CHOOSE d \in 0..15 : SubSeq(LowerHex, d + 1, d + 1) = c
CharAt(str, i) == SubSeq(str, i, i)
BytesOf(hex) ==
    [i \in 1..(Len(hex) \div 2) |->
        16 * DigitValue(CharAt(hex, 2 * i - 1)) + DigitValue(CharAt(hex, 2 * i))]

\* key is aa/bb/rest with aa, bb, rest the characters [0,2), [2,4), [4,64) of
\* the 64 lower-case hexadecimal digits of url's digest.
ShardedDigest(key, url) ==
    /\ Len(key) = 66
    /\ CharAt(key, 3) = "/"
    /\ CharAt(key, 6) = "/"
    /\ LET hex == SubSeq(key, 1, 2) \o SubSeq(key, 4, 5) \o SubSeq(key, 7, 66)
       IN  /\ Len(hex) = 64
           /\ \A i \in 1..64 : IsLowerHex(CharAt(hex, i))
           /\ BytesOf(hex) = Sha256(url)

\* C15: for every string given, the empty one included, get_r2_key returns a
\* key of the form aa/bb/rest cut from the 64-digit lower-case hexadecimal
\* digest of the string; the same string gives the same key and two
\* different strings give different keys.
C15_KeyIsShardedDigest ==
    derived # NoKeys =>
        /\ ShardedDigest(derived.k1, derived.u1)
        /\ ShardedDigest(derived.k2, derived.u2)
        /\ derived.u1 = derived.u2 => derived.k1 = derived.k2
        /\ derived.u1 # derived.u2 => derived.k1 # derived.k2

\* The keys of the empty string and of http://example.com/a.
C15_Witness ==
    /\ derived.u1 = ""
    /\ derived.k1 = "e3/b0/c44298fc1c149afbf4c8996fb92427ae41e4649b934ca495991b7852b855"
    /\ derived.u2 = "http://example.com/a"
    /\ derived.k2 = "5b/d4/8fa66118084cc32779267a31116dc05c70bcbca0f28e990cd58ce10afeae"

\* --------------------------------------------------------------------- C16
\* C16: a request whose origin fetch failed at transport level is finished
\* with Err (from cache_url and from the handler) and has issued nothing but
\* that one fetch: no bucket read, no fallback fetch, whether or not the
\* bucket holds the URL's object.
C16_OriginTransportErrorIsFatal ==
    \A t \in Tasks :
        task[t].fault = "origin" =>
            /\ Done(t)
            /\ task[t].result.kind = "Err"
            /\ task[t].response.kind = "Err"
            /\ task[t].ops = OpsAt("origin")

\* The object was stored when the request came in and still is; the origin
\* fetch failed and the request ended in Err without reading it.
C16_Witness ==
    \E t \in Tasks :
        /\ task[t].fault = "origin" /\ Done(t) /\ task[t].warm
        /\ bucket[Key(t)].present
        /\ task[t].response.kind = "Err"
        /\ task[t].ops.get = 0 /\ task[t].ops.fallback = 0

\* --------------------------------------------------------------------- C17
\* C17: a request holds an origin response only while it is on the branch of
\* that response's band (200..299: head and put; >= 400: get and fallback),
\* and a finished request that issued only the origin fetch, which did not
\* fail, got a status in neither band: cache_url returned the error
\* "unexpected status code from origin", with no bucket head, put or get and
\* no fallback fetch.
C17_OtherStatusIsError ==
    \A t \in Tasks :
        /\ task[t].pc \in {"head", "put"} => Is2xx(task[t].res.status)
        /\ task[t].pc \in {"get", "fallback"} => Is4xxUp(task[t].res.status)
        /\ task[t].ops.head + task[t].ops.put > 0 =>
              (task[t].ops.get = 0 /\ task[t].ops.fallback = 0)
        /\ (Done(t) /\ task[t].fault = "" /\ task[t].ops = OpsAt("origin")) =>
              /\ task[t].result = Err("unexpected status code from origin")
              /\ task[t].response = Err("unexpected status code from origin")

\* A request rejected for its origin status although the object is stored.
C17_Witness ==
    \E t \in Tasks :
        /\ Done(t) /\ task[t].warm /\ bucket[Key(t)].present
        /\ task[t].result = Err("unexpected status code from origin")
        /\ task[t].ops = OpsAt("origin")

\* --------------------------------------------------------------------- C18
\* C18: a request has handed nothing back while it is still in flight (in
\* particular while its head or its put is pending), and a request that
\* returned the origin's 2xx response has completed its existence check
\* and either completed its put or found the object already there.
C18_ResponseAfterStoreWrite ==
    \A t \in Tasks :
        /\ ~Done(t) => (task[t].result = NoResponse /\ task[t].response = NoResponse)
        /\ OriginServed(t) =>
              /\ task[t].ops.head = 1
              /\ task[t].ret = "stored" => task[t].ops.put = 1
              /\ task[t].ret = "origin" => task[t].ops.put = 0
              /\ bucket[Key(t)].present

\* One request has its 2xx response in hand and its put still pending, and
\* has answered nothing yet; another has answered after its put.
C18_Witness ==
    \E t \in Tasks, u \in Tasks :
        /\ task[t].pc = "put" /\ Is2xx(task[t].res.status)
        /\ task[t].response = NoResponse
        /\ Done(u) /\ task[u].ret = "stored" /\ task[u].ops.put = 1
        /\ task[u].method = "GET" /\ Is2xx(task[u].response.status)

\* --------------------------------------------------------------------- C19
\* C19: every object in the bucket was put by a finished request for the URL
\* in its metadata, under that URL's key, and its body is the whole body of
\* the 2xx response that request got from the origin and returned.
C19_StoredObjectsAreOriginBodies ==
    \A k \in Keys :
        bucket[k].present =>
            \E t \in Tasks :
                /\ Done(t) /\ task[t].ret = "stored"
                /\ task[t].url = bucket[k].url
                /\ ValidUrl(task[t].url)
                /\ key_of[task[t].url] = k
                /\ task[t].result.kind = "Ok"
                /\ Is2xx(task[t].result.status)
                /\ task[t].result.body \in OkBodies
                /\ task[t].result.body.bytes = bucket[k].body

\* "hello" is stored for one URL; for the other URL the origin failed and the
\* fallback answered, and nothing is stored.
C19_Witness ==
    \E t \in Tasks, u \in Tasks :
        /\ Done(t) /\ task[t].ret = "stored"
        /\ bucket[Key(t)] = Object("hello", task[t].url)
        /\ Done(u) /\ task[u].ret = "fallback"
        /\ ~bucket[Key(u)].present

\* --------------------------------------------------------------------- C20
\* C20: a step of a request for URL u changes no object but the one of u:
\* the object of every other URL, present or absent, is after the step what
\* it was before.
C20_OtherKeysUntouched ==
    [][\A t \in Tasks :
          task'[t] # task[t] =>
              \A v \in Urls :
                  v # task'[t].url => bucket'[key_of[v]] = bucket[key_of[v]]]_vars

\* Requests for two URLs ran together and each URL holds its own object.
C20_Witness ==
    \E t \in Tasks, u \in Tasks :
        /\ task[t].url # task[u].url
        /\ Done(t) /\ task[t].ret = "stored"
        /\ Done(u) /\ task[u].ret = "stored"
        /\ bucket[Key(t)] = Object("hello", task[t].url)
        /\ bucket[Key(u)] = Object("", task[u].url)

====
